---- MODULE Spec2Model ----
(***************************************************************************)
(* Emoji ranking bot (src/bot.py): the two commands, the history scan and  *)
(* the ranking, as a state machine.                                        *)
(*                                                                         *)
(* Strings are modelled as tuples of tokens.  An emoji key is the string   *)
(* the code uses as Counter key: <<u>> for a Unicode emoji u, and          *)
(* <<"<:", name, id>> or <<"<a:", name, id>> for custom-emoji markup.      *)
(* A command argument is a tuple of tokens, " " being whitespace.          *)
(* Optional values (datetime | None, timedelta | None) are <<>> for None   *)
(* and <<v>> otherwise.  Time is counted in days.                          *)
(***************************************************************************)
EXTENDS Integers, Sequences, FiniteSets, Bags, TLC

VARIABLES
    pc,         \* position of the running command: idle, send_gathering, scan,
                \* send_reply, error, send_handler, done
    cmd,        \* the command invoked: none, emoji_leaderboard, underused_emojis
    caller,     \* the permissions of the member who invoked it
    arg,        \* the leaderboard's argument as typed
    since,      \* collect_emoji_counts' cutoff: <<>> or <<t>>
    scanCalls,  \* the arguments of every call of collect_emoji_counts so far
    chan,       \* index in guild.text_channels of the channel being scanned
    inChannel,  \* TRUE while channel.history of that channel is being iterated
    lastTs,     \* timestamp of the last stored message passed in this channel
    fetched,    \* stored messages passed so far in this scan
    counts,     \* the Counter: sequence of [key, n] in insertion order
    visited,    \* how the loop left each channel, in order
    stored,     \* bag of the stored messages passed: [ch, ts, content, yielded]
    raised,     \* the exception that left the callback or its handler, or none
    raisedAt,   \* where it was raised: none, check, history, send, handler
    sending,    \* the message ctx.send is suspended on: <<>> or <<msg>>
    sent,       \* what ctx.send has delivered, in order
    log,        \* the operator log: what the module's logger has written
    registry,   \* guild.emojis as read by the command
    ranked      \* labelled_pairs of the leaderboard

vars == <<pc, cmd, caller, arg, since, scanCalls, chan, inChannel, lastTs, fetched,
          counts, visited, stored, raised, raisedAt, sending, sent, log, registry,
          ranked>>

----------------------------------------------------------------------------
(* Bounds of the model *)

MaxMsgs == 2          \* stored messages the platform holds for one scan
MaxKeys == 22         \* keys of the largest map ranked
MaxReady == 1         \* times the gateway reports ready

(* Program constants *)

TopN == 20
UnderusedLimit == 5
UnderusedWindow == 30
Now == 100            \* datetime.now(timezone.utc)

None == <<>>
Some(v) == <<v>>

----------------------------------------------------------------------------
(* Timeframe labels *)

L_1week == <<"1ju">>          \* "1주"
L_1month == <<"1gaewol">>     \* "1개월"
L_3months == <<"3gaewol">>    \* "3개월"
L_all == <<"jeonche">>        \* "전체"

TIMEFRAME_KEYS == {L_1week, L_1month, L_3months, L_all}

TIMEFRAME_LABELS(label) ==
    CASE label = L_1week -> Some(7)
      [] label = L_1month -> Some(30)
      [] label = L_3months -> Some(90)
      [] label = L_all -> None

RECURSIVE lstrip(_)
lstrip(s) == IF s # <<>> /\ Head(s) = " " THEN lstrip(Tail(s)) ELSE s

RECURSIVE rstrip(_)
rstrip(s) ==
    IF s # <<>> /\ s[Len(s)] = " " THEN rstrip(SubSeq(s, 1, Len(s) - 1)) ELSE s

strip(s) == rstrip(lstrip(s))

\* dict.get: None for a missing key
parse_timeframe(label) ==
    LET cleaned == strip(label)
    IN IF cleaned \in TIMEFRAME_KEYS THEN TIMEFRAME_LABELS(cleaned) ELSE None

\* the membership test made on the cleaned label instead
label_rejected_stripped(label) == strip(label) \notin TIMEFRAME_KEYS
\* the membership test of emoji_leaderboard, on the argument as typed
label_rejected(label) == label \notin TIMEFRAME_KEYS

\* since = now - timeframe when the timeframe is truthy
cutoff_of(timeframe) == IF timeframe # None THEN Some(Now - timeframe[1]) ELSE None

LabelInputs ==
    TIMEFRAME_KEYS \cup
    {<<" ", "1ju">>, <<"jeonche", " ">>, <<"1nyeon">>, <<"1", "ju">>, <<>>}

----------------------------------------------------------------------------
(* Emoji keys *)

\* discord.PartialEmoji.from_str: markup parses to (animated, name, id); any
\* other string is a Unicode emoji, with the string as name and no id ("")
PartialEmoji_from_str(s) ==
    IF Len(s) = 3 /\ s[1] \in {"<:", "<a:"}
    THEN [animated |-> s[1] = "<a:", name |-> s[2], id |-> s[3]]
    ELSE [animated |-> FALSE, name |-> s[1], id |-> ""]

\* PartialEmoji.__str__ and Emoji.__str__
Emoji_str(e) ==
    IF e.id = "" THEN <<e.name>>
    ELSE IF e.animated THEN <<"<a:", e.name, e.id>>
    ELSE <<"<:", e.name, e.id>>

is_custom_emoji(e) == e.id # ""

Unicode(u) == [animated |-> FALSE, name |-> u, id |-> ""]
Custom(name, id) == [animated |-> FALSE, name |-> name, id |-> id]

\* the emoji a key stands for: the numeric id of a custom emoji, the
\* grapheme of a standard one
Identity(key) ==
    LET p == PartialEmoji_from_str(key)
    IN IF is_custom_emoji(p) THEN <<"id", p.id>> ELSE <<"unicode", p.name>>

----------------------------------------------------------------------------
(* The Counter *)

Keys(c) == {c[i].key : i \in 1..Len(c)}

Get(c, key) ==
    IF \E i \in 1..Len(c) : c[i].key = key
    THEN c[CHOOSE i \in 1..Len(c) : c[i].key = key].n
    ELSE 0

\* c[key] = v
CounterSet(c, key, v) ==
    IF \E i \in 1..Len(c) : c[i].key = key
    THEN [i \in 1..Len(c) |-> IF c[i].key = key THEN [key |-> key, n |-> v] ELSE c[i]]
    ELSE Append(c, [key |-> key, n |-> v])

\* counts[key] += v
CounterAdd(c, key, v) ==
    IF \E i \in 1..Len(c) : c[i].key = key
    THEN [i \in 1..Len(c) |->
            IF c[i].key = key THEN [key |-> key, n |-> c[i].n + v] ELSE c[i]]
    ELSE Append(c, [key |-> key, n |-> v])

\* Text is a tuple of tokens: [type |-> "word"], [type |-> "emoji", s |-> <<u>>]
\* (what emoji.emoji_list finds) and [type |-> "markup", s |-> markup] (what
\* the custom pattern finds).
Word == [type |-> "word", s |-> <<"w">>]
Uni(u) == [type |-> "emoji", s |-> <<u>>]
Markup(name, id) == [type |-> "markup", s |-> <<"<:", name, id>>]

RECURSIVE CountTokens(_, _, _)
CountTokens(c, content, type) ==
    IF content = <<>> THEN c
    ELSE LET t == Head(content)
             c1 == IF t.type # type THEN c
                   ELSE IF type = "emoji" THEN CounterAdd(c, t.s, 1)
                   ELSE CounterAdd(c, Emoji_str(PartialEmoji_from_str(t.s)), 1)
         IN CountTokens(c1, Tail(content), type)

extract_emoji_counts_from_text(content) ==
    CountTokens(CountTokens(<<>>, content, "emoji"), content, "markup")

\* target[key] = value in place of +=
RECURSIVE merge_counts_overwrite(_, _)
merge_counts_overwrite(target, source) ==
    IF source = <<>> THEN target
    ELSE merge_counts_overwrite(CounterSet(target, Head(source).key, Head(source).n),
                                Tail(source))

RECURSIVE merge_counts(_, _)
merge_counts(target, source) ==
    IF source = <<>> THEN target
    ELSE merge_counts(CounterAdd(target, Head(source).key, Head(source).n),
                      Tail(source))

\* counts[emoji_key] += 1, the slip that counts a reaction entry once
reaction_increment_one(reaction) == 1
\* counts[emoji_key] += reaction.count
reaction_increment(reaction) == reaction.count

RECURSIVE AddReactions(_, _)
AddReactions(c, reactions) ==
    IF reactions = <<>> THEN c
    ELSE AddReactions(
            CounterAdd(c, Emoji_str(Head(reactions).emoji),
                       reaction_increment(Head(reactions))),
            Tail(reactions))

\* the body of the loop over channel.history
CountMessage(c, m) ==
    AddReactions(merge_counts(c, extract_emoji_counts_from_text(m.content)),
                 m.reactions)

----------------------------------------------------------------------------
(* The guild: what the platform can hand to the scan *)

Reaction(e, n) == [emoji |-> e, count |-> n]
Message(content, reactions) == [content |-> content, reactions |-> reactions]

MessagePool ==
    << Message(<<Word>>, <<>>),
       Message(<<Uni("grin")>>, <<Reaction(Unicode("joy"), 3)>>),
       Message(<<Markup("old", "123"), Markup("old", "123")>>,
               <<Reaction(Custom("new", "123"), 3)>>),
       Message(<<Markup("new", "123"), Word, Uni("grin")>>,
               <<Reaction(Unicode("grin"), 2)>>) >>

\* guild.text_channels
text_channels == <<"general", "random">>
NumChannels == Len(text_channels)

\* message timestamps: at the one-month and at the one-week cutoff
MsgTimes == {Now - 30, Now - 7}

\* guild.emojis: id 123 is now named "new"
Registries ==
    { <<Custom("wave", "456")>>,
      <<Custom("new", "123"), Custom("wave", "456")>> }

Callers == [manage_emojis : BOOLEAN]

ErrorKinds == {"Forbidden", "HTTPException", "OSError"}

\* channel.history(after=since): the platform returns the messages whose
\* snowflake is greater than the cutoff's, so a message stamped exactly at
\* the cutoff is not returned
history_yields(after, ts) == after = None \/ ts > after[1]

\* except discord.Forbidden / except discord.HTTPException
caught(kind) == kind \in {"Forbidden", "HTTPException"}

\* the command left without its check
has_permissions_unchecked(member) == TRUE
\* @commands.has_permissions(manage_emojis=True)
has_permissions(member) == member.manage_emojis

\* only underused_emojis registers an error handler
has_error_handler(command) == command = "underused_emojis"

Msg(kind, body) == [kind |-> kind, body |-> body]

----------------------------------------------------------------------------
(* Ranking and resolution *)

MaxN(c) == CHOOSE v \in {c[i].n : i \in 1..Len(c)} :
               \A i \in 1..Len(c) : c[i].n <= v

Without(c, i) == SubSeq(c, 1, i - 1) \o SubSeq(c, i + 1, Len(c))

\* an unstable selection: the last entry with the largest count
pick_last(c) == CHOOSE i \in 1..Len(c) :
                    c[i].n = MaxN(c) /\ \A j \in (i + 1)..Len(c) : c[j].n # MaxN(c)
\* the position most_common takes next: the first entry with the largest count
pick_first(c) == CHOOSE i \in 1..Len(c) :
                     c[i].n = MaxN(c) /\ \A j \in 1..(i - 1) : c[j].n # MaxN(c)

RECURSIVE most_common(_, _)
most_common(c, n) ==
    IF n = 0 \/ c = <<>> THEN <<>>
    ELSE LET i == pick_first(c)
         IN <<c[i]>> \o most_common(Without(c, i), n - 1)

get_emoji(reg, id) ==
    IF \E i \in 1..Len(reg) : reg[i].id = id
    THEN Some(reg[CHOOSE i \in 1..Len(reg) : reg[i].id = id])
    ELSE None

\* one turn of resolve_emojis' loop: what it appends to resolved
resolve_one(reg, key) ==
    LET partial == PartialEmoji_from_str(key)
    IN IF is_custom_emoji(partial)
       THEN LET emoji_obj == get_emoji(reg, partial.id)
            IN IF emoji_obj # None THEN <<Emoji_str(emoji_obj[1])>> ELSE <<key>>
       ELSE <<key>>

RECURSIVE resolve_emojis(_, _)
resolve_emojis(reg, keys) ==
    IF keys = <<>> THEN <<>>
    ELSE resolve_one(reg, Head(keys)) \o resolve_emojis(reg, Tail(keys))

Min(a, b) == IF a < b THEN a ELSE b

\* list(zip(labels, counts))
zip(labels, ns) ==
    [i \in 1..Min(Len(labels), Len(ns)) |-> [label |-> labels[i], n |-> ns[i]]]

labelled_pairs(reg, c) ==
    LET top_20 == most_common(c, TopN)
        labels == resolve_emojis(reg, [i \in 1..Len(top_20) |-> top_20[i].key])
    IN zip(labels, [i \in 1..Len(top_20) |-> top_20[i].n])

underused_threshold(n) == n < UnderusedLimit

underused_keys(reg, c) ==
    LET custom_emoji_keys == [i \in 1..Len(reg) |-> Emoji_str(reg[i])]
    IN SelectSeq(custom_emoji_keys, LAMBDA key : underused_threshold(Get(c, key)))

----------------------------------------------------------------------------
(* The commands.  Every await is a step of its own: the callback is       *)
(* suspended in it, and ctx.send, a network call, returns or raises.      *)

Init ==
    /\ pc = "idle"
    /\ cmd = "none"
    /\ caller = [manage_emojis |-> FALSE]
    /\ arg = <<>>
    /\ since = None
    /\ scanCalls = <<>>
    /\ chan = 1
    /\ inChannel = FALSE
    /\ lastTs = 0
    /\ fetched = 0
    /\ counts = <<>>
    /\ visited = <<>>
    /\ stored = EmptyBag
    /\ raised = "none"
    /\ raisedAt = "none"
    /\ sending = None
    /\ sent = <<>>
    /\ log = <<>>
    /\ registry = <<>>
    /\ ranked = <<>>

ScanVars == <<chan, inChannel, lastTs, fetched, counts, visited, stored>>

\* emoji_leaderboard up to its first await: the usage message of a rejected
\* label, or the cutoff and the "gathering" message of an accepted one
emoji_leaderboard(label) ==
    /\ pc = "idle"
    /\ cmd' = "emoji_leaderboard"
    /\ arg' = label
    /\ LET timeframe == parse_timeframe(label)
       IN IF label_rejected(label)
          THEN /\ sending' = Some(Msg("usage", <<>>))
               /\ pc' = "send_reply"
               /\ UNCHANGED since
          ELSE /\ since' = cutoff_of(timeframe)
               /\ sending' = Some(Msg("gathering", <<>>))
               /\ pc' = "send_gathering"
    /\ UNCHANGED <<caller, scanCalls, raised, raisedAt, sent, log, registry, ranked>>
    /\ UNCHANGED ScanVars

\* the "gathering" message is delivered and collect_emoji_counts is called
GatheringSent ==
    /\ pc = "send_gathering"
    /\ sent' = Append(sent, sending[1])
    /\ sending' = None
    /\ scanCalls' = Append(scanCalls, since)
    /\ pc' = "scan"
    /\ UNCHANGED <<cmd, caller, arg, since, raised, raisedAt, log, registry, ranked>>
    /\ UNCHANGED ScanVars

\* the last message of a callback is delivered and the callback returns
ReplySent ==
    /\ pc = "send_reply"
    /\ sent' = Append(sent, sending[1])
    /\ sending' = None
    /\ pc' = "done"
    /\ UNCHANGED <<cmd, caller, arg, since, scanCalls, raised, raisedAt, log,
                   registry, ranked>>
    /\ UNCHANGED ScanVars

\* ctx.send raises in a callback: the exception leaves the callback
SendFails ==
    /\ pc \in {"send_gathering", "send_reply"}
    /\ sending' = None
    /\ raised' = "HTTPException"
    /\ raisedAt' = "send"
    /\ pc' = "error"
    /\ UNCHANGED <<cmd, caller, arg, since, scanCalls, sent, log, registry, ranked>>
    /\ UNCHANGED ScanVars

\* underused_emojis up to the call of collect_emoji_counts; the check of
\* has_permissions runs before the callback and raises MissingPermissions
underused_emojis(member) ==
    /\ pc = "idle"
    /\ cmd' = "underused_emojis"
    /\ caller' = member
    /\ IF has_permissions(member)
       THEN /\ since' = Some(Now - UnderusedWindow)
            /\ scanCalls' = Append(scanCalls, Some(Now - UnderusedWindow))
            /\ pc' = "scan"
            /\ UNCHANGED <<raised, raisedAt>>
       ELSE /\ raised' = "MissingPermissions"
            /\ raisedAt' = "check"
            /\ pc' = "error"
            /\ UNCHANGED <<since, scanCalls>>
    /\ UNCHANGED <<arg, sending, sent, log, registry, ranked>>
    /\ UNCHANGED ScanVars

Scanning == pc = "scan" /\ chan <= NumChannels

LeaveChannel(how) ==
    /\ visited' = Append(visited, how)
    /\ chan' = chan + 1
    /\ inChannel' = FALSE

\* collect_emoji_counts: a channel the bot may not read is passed over
SkipChannel ==
    /\ Scanning /\ ~inChannel
    /\ LeaveChannel("unreadable")
    /\ UNCHANGED <<pc, cmd, caller, arg, since, scanCalls, lastTs, fetched, counts,
                   stored, raised, raisedAt, sending, sent, log, registry, ranked>>

\* collect_emoji_counts: channel.history of a readable channel is opened
OpenHistory ==
    /\ Scanning /\ ~inChannel
    /\ inChannel' = TRUE
    /\ lastTs' = 0
    /\ UNCHANGED <<pc, cmd, caller, arg, since, scanCalls, chan, fetched, counts, visited,
                   stored, raised, raisedAt, sending, sent, log, registry, ranked>>

\* the next stored message of the channel, oldest first: the history yields
\* it when it lies after the cutoff, and the loop body counts it
StoredMessage(m, ts) ==
    /\ Scanning /\ inChannel
    /\ fetched < MaxMsgs
    /\ ts >= lastTs
    /\ LET yielded == history_yields(since, ts)
       IN /\ counts' = IF yielded THEN CountMessage(counts, MessagePool[m]) ELSE counts
          /\ stored' = stored (+) SetToBag({[ch |-> chan, ts |-> ts, m |-> m,
                                             yielded |-> yielded]})
    /\ lastTs' = ts
    /\ fetched' = fetched + 1
    /\ UNCHANGED <<pc, cmd, caller, arg, since, scanCalls, chan, inChannel, visited,
                   raised, raisedAt, sending, sent, log, registry, ranked>>

\* the history is exhausted: next channel
HistoryEnds ==
    /\ Scanning /\ inChannel
    /\ LeaveChannel("done")
    /\ UNCHANGED <<pc, cmd, caller, arg, since, scanCalls, lastTs, fetched, counts,
                   stored, raised, raisedAt, sending, sent, log, registry, ranked>>

\* a fetch of the history raises: a caught error is logged and the loop goes
\* on, any other leaves collect_emoji_counts and the command callback
HistoryFails(kind) ==
    /\ Scanning /\ inChannel
    /\ IF caught(kind)
       THEN /\ LeaveChannel(kind)
            /\ log' = Append(log, [level |-> "warning", what |-> kind, ch |-> chan])
            /\ UNCHANGED <<pc, raised, raisedAt>>
       ELSE /\ raised' = kind
            /\ raisedAt' = "history"
            /\ pc' = "error"
            /\ UNCHANGED <<chan, inChannel, visited, log>>
    /\ UNCHANGED <<cmd, caller, arg, since, scanCalls, lastTs, fetched, counts,
                   stored, sending, sent, registry, ranked>>

Returned == pc = "scan" /\ chan = NumChannels + 1

\* emoji_leaderboard from the return of collect_emoji_counts to its last send
LeaderboardReply(reg) ==
    /\ Returned /\ cmd = "emoji_leaderboard"
    /\ registry' = reg
    /\ IF counts = <<>>
       THEN /\ sending' = Some(Msg("no_emoji", <<>>))
            /\ UNCHANGED ranked
       ELSE /\ ranked' = labelled_pairs(reg, counts)
            /\ sending' = Some(Msg("chart", labelled_pairs(reg, counts)))
    /\ pc' = "send_reply"
    /\ UNCHANGED <<cmd, caller, arg, since, scanCalls, raised, raisedAt, sent, log>>
    /\ UNCHANGED ScanVars

\* underused_emojis from the return of collect_emoji_counts to its last send
UnderusedReply(reg) ==
    /\ Returned /\ cmd = "underused_emojis"
    /\ registry' = reg
    /\ LET underused == underused_keys(reg, counts)
       IN IF underused = <<>>
          THEN sending' = Some(Msg("none_underused", <<>>))
          ELSE sending' = Some(Msg("underused", resolve_emojis(reg, underused)))
    /\ pc' = "send_reply"
    /\ UNCHANGED <<cmd, caller, arg, since, scanCalls, raised, raisedAt, sent, log,
                   ranked>>
    /\ UNCHANGED ScanVars

\* the exception reaches the command's error handler, which only
\* underused_emojis has: underused_emojis_error up to its send.  A command
\* without a handler ends there, with nothing sent.
DispatchError ==
    /\ pc = "error"
    /\ IF has_error_handler(cmd)
       THEN /\ sending' = IF raised = "MissingPermissions"
                          THEN Some(Msg("admin_only", <<>>))
                          ELSE Some(Msg("try_again_later", <<>>))
            /\ pc' = "send_handler"
       ELSE /\ pc' = "done"
            /\ UNCHANGED sending
    /\ UNCHANGED <<cmd, caller, arg, since, scanCalls, raised, raisedAt, sent, log,
                   registry, ranked>>
    /\ UNCHANGED ScanVars

\* underused_emojis_error: its message is delivered; in the else branch
\* logger.error follows the send
HandlerSent ==
    /\ pc = "send_handler"
    /\ sent' = Append(sent, sending[1])
    /\ sending' = None
    /\ log' = IF raised = "MissingPermissions" THEN log
              ELSE Append(log, [level |-> "error", what |-> raised, ch |-> 0])
    /\ pc' = "done"
    /\ UNCHANGED <<cmd, caller, arg, since, scanCalls, raised, raisedAt, registry,
                   ranked>>
    /\ UNCHANGED ScanVars

\* underused_emojis_error: ctx.send raises and the exception leaves the
\* handler before anything is logged
HandlerSendFails ==
    /\ pc = "send_handler"
    /\ sending' = None
    /\ raised' = "HTTPException"
    /\ raisedAt' = "handler"
    /\ pc' = "done"
    /\ UNCHANGED <<cmd, caller, arg, since, scanCalls, sent, log, registry, ranked>>
    /\ UNCHANGED ScanVars

\* EmojiRankingBot.on_ready: the gateway reports ready, at any moment and on
\* every reconnection, and the login is logged
on_ready ==
    /\ Cardinality({i \in 1..Len(log) : log[i].level = "info"}) < MaxReady
    /\ log' = Append(log, [level |-> "info", what |-> "bot_logged_in", ch |-> 0])
    /\ UNCHANGED <<pc, cmd, caller, arg, since, scanCalls, raised, raisedAt, sending,
                   sent, registry, ranked>>
    /\ UNCHANGED ScanVars

Next ==
    \/ on_ready
    \/ \E label \in LabelInputs : emoji_leaderboard(label)
    \/ GatheringSent
    \/ ReplySent
    \/ SendFails
    \/ \E member \in Callers : underused_emojis(member)
    \/ SkipChannel
    \/ OpenHistory
    \/ \E m \in 1..Len(MessagePool), ts \in MsgTimes : StoredMessage(m, ts)
    \/ HistoryEnds
    \/ \E kind \in ErrorKinds : HistoryFails(kind)
    \/ \E reg \in Registries : LeaderboardReply(reg)
    \/ \E reg \in Registries : UnderusedReply(reg)
    \/ DispatchError
    \/ HandlerSent
    \/ HandlerSendFails

Spec == Init /\ [][Next]_vars

----------------------------------------------------------------------------
(* The ranking alone: maps of up to MaxKeys keys, as a scan of a larger     *)
(* guild leaves them, handed to the leaderboard's reply                     *)

RankKey(i) ==
    CASE i = 1 -> <<"<:", "old", "123">>
      [] i = 2 -> <<"<:", "gone", "999">>
      [] OTHER -> <<ToString(i)>>

RankMap(len, step, offset, modulus) ==
    [i \in 1..len |-> [key |-> RankKey(i), n |-> ((i * step + offset) % modulus) + 1]]

RankMaps ==
    {RankMap(len, step, offset, modulus) :
        len \in 0..MaxKeys, step \in 0..3, offset \in 0..2, modulus \in 1..4}

InitRank ==
    /\ pc = "scan"
    /\ cmd = "emoji_leaderboard"
    /\ caller = [manage_emojis |-> FALSE]
    /\ arg = L_all
    /\ since = None
    /\ scanCalls = <<None>>
    /\ chan = NumChannels + 1
    /\ inChannel = FALSE
    /\ lastTs = 0
    /\ fetched = 0
    /\ counts \in RankMaps
    /\ visited = [i \in 1..NumChannels |-> "done"]
    /\ stored = EmptyBag
    /\ raised = "none"
    /\ raisedAt = "none"
    /\ sending = None
    /\ sent = <<Msg("gathering", <<>>)>>
    /\ log = <<>>
    /\ registry = <<>>
    /\ ranked = <<>>

NextRank ==
    \/ \E reg \in Registries : LeaderboardReply(reg)
    \/ ReplySent
    \/ SendFails
    \/ DispatchError
    \/ on_ready

SpecRank == InitRank /\ [][NextRank]_vars

----------------------------------------------------------------------------
(* What the claims speak of *)

RECURSIVE SumSeq(_)
SumSeq(ns) == IF ns = <<>> THEN 0 ELSE Head(ns) + SumSeq(Tail(ns))

\* occurrences of the string key in a message's text
TextOccurrences(m, key) ==
    Cardinality({i \in 1..Len(m.content) :
                    m.content[i].type \in {"emoji", "markup"} /\ m.content[i].s = key})

\* the tallies of the message's reactions whose emoji prints as key
ReactionTally(m, key) ==
    SumSeq([i \in 1..Len(m.reactions) |->
               IF Emoji_str(m.reactions[i].emoji) = key THEN m.reactions[i].count ELSE 0])

PoolKeys ==
    UNION {{MessagePool[m].content[i].s : i \in {j \in 1..Len(MessagePool[m].content) :
                                   MessagePool[m].content[j].type # "word"}}
           \cup {Emoji_str(MessagePool[m].reactions[i].emoji) :
                     i \in 1..Len(MessagePool[m].reactions)} :
           m \in 1..Len(MessagePool)}

RECURSIVE BagTotalOf(_, _, _)
BagTotalOf(elems, bag, key) ==
    IF elems = {} THEN 0
    ELSE LET e == CHOOSE x \in elems : TRUE
             one == IF e.yielded
                    THEN TextOccurrences(MessagePool[e.m], key)
                         + ReactionTally(MessagePool[e.m], key)
                    ELSE 0
         IN CopiesIn(e, bag) * one + BagTotalOf(elems \ {e}, bag, key)

\* what the yielded messages of a bag hold of one key, whatever their order
BagTotal(bag, key) == BagTotalOf(BagToSet(bag), bag, key)

\* the count of an emoji: what the map holds under the keys that stand for it
Total(c, ident) ==
    SumSeq([i \in 1..Len(c) |-> IF Identity(c[i].key) = ident THEN c[i].n ELSE 0])

Kinds(msgs) == [i \in 1..Len(msgs) |-> msgs[i].kind]

----------------------------------------------------------------------------
(* Claims *)

\* C1 (as claimed): occurrences of one emoji, whatever display name their
\* markup carries and whether they come from text or from a reaction, are
\* counted under one key: the map never holds two keys for the same emoji.
C1_OneKeyPerEmoji ==
    \A i, j \in 1..Len(counts) :
        Identity(counts[i].key) = Identity(counts[j].key) => i = j

\* C2 (as claimed): a command that ended on an unexpected error has sent the
\* "try again later" message, whichever of the two commands it is.
C2_UnexpectedErrorReported ==
    (pc = "done" /\ raised \notin {"none", "MissingPermissions"})
        => \E i \in 1..Len(sent) : sent[i].kind = "try_again_later"

\* C3 (as claimed): an error raised by one channel's history, a permission
\* revoked mid-scan or a transport or fetch failure, never leaves
\* collect_emoji_counts; the loop goes on to the channels that remain, and
\* once it has returned every channel has been visited and the map holds at
\* least the full counts of every channel whose history ran to its end.
DoneChannels == {i \in 1..Len(visited) : visited[i] = "done"}

StoredOf(chs) ==
    [e \in {x \in BagToSet(stored) : x.ch \in chs} |-> CopiesIn(e, stored)]

C3_ChannelErrorIsolated ==
    /\ raisedAt # "history"
    /\ \A i \in 1..Len(visited) :
           visited[i] \in ErrorKinds
               => \E j \in 1..Len(log) : log[j].level = "warning" /\ log[j].ch = i
    /\ (pc = "scan" /\ chan <= NumChannels) => Len(visited) = chan - 1
    /\ Returned =>
          /\ Len(visited) = NumChannels
          /\ \A key \in PoolKeys :
                 Get(counts, key) >= BagTotal(StoredOf(DoneChannels), key)

\* C4: for a caller without manage_emojis, underused_emojis never calls
\* collect_emoji_counts, nothing is scanned or counted, the only message ever
\* handed to ctx.send is the fixed rejection, and it is what the caller has
\* received when the command ends, unless that send itself failed.
C4_NoScanWithoutCapability ==
    (cmd = "underused_emojis" /\ ~caller.manage_emojis) =>
        /\ scanCalls = <<>>
        /\ pc \notin {"scan", "send_gathering", "send_reply"}
        /\ counts = <<>> /\ stored = EmptyBag /\ visited = <<>>
        /\ \A i \in 1..Len(sent) : sent[i].kind = "admin_only"
        /\ sending # None => sending[1].kind = "admin_only"
        /\ pc = "done" =>
              IF raisedAt = "handler" THEN sent = <<>>
              ELSE Kinds(sent) = <<"admin_only">>

C4_Witness ==
    /\ cmd = "underused_emojis" /\ ~caller.manage_emojis
    /\ pc = "done"
    /\ Kinds(sent) = <<"admin_only">>

\* C5: the leaderboard accepts exactly the four labels; any other argument
\* gets the usage message and nothing else, and the command ends with no
\* call of collect_emoji_counts; an accepted label computes its own cutoff,
\* now minus 7, 30 or 90 days, or none, and the scan, once the "gathering"
\* message is out, is called with it and yields by it.
ClaimedCutoff(label) ==
    CASE label = <<"1ju">> -> <<Now - 7>>
      [] label = <<"1gaewol">> -> <<Now - 30>>
      [] label = <<"3gaewol">> -> <<Now - 90>>
      [] label = <<"jeonche">> -> <<>>

C5_TimeframeLabels ==
    cmd = "emoji_leaderboard" =>
        IF arg \in {<<"1ju">>, <<"1gaewol">>, <<"3gaewol">>, <<"jeonche">>}
        THEN /\ since = ClaimedCutoff(arg)
             /\ scanCalls = IF sent = <<>> THEN <<>> ELSE <<ClaimedCutoff(arg)>>
             /\ sent # <<>> => sent[1].kind = "gathering"
             /\ pc = "scan" => scanCalls = <<ClaimedCutoff(arg)>>
             /\ \A e \in BagToSet(stored) :
                    e.yielded <=> history_yields(ClaimedCutoff(arg), e.ts)
        ELSE /\ scanCalls = <<>>
             /\ counts = <<>> /\ stored = EmptyBag /\ visited = <<>>
             /\ pc \in {"send_reply", "error", "done"}
             /\ sending # None => sending[1].kind = "usage"
             /\ IF raisedAt = "none" /\ pc = "done"
                THEN Kinds(sent) = <<"usage">>
                ELSE sent = <<>>

C5_Witness ==
    /\ cmd = "emoji_leaderboard"
    /\ arg = <<" ", "1ju">>
    /\ pc = "done"
    /\ Kinds(sent) = <<"usage">>

\* C6 (as claimed): the report lists exactly the registered custom emoji used
\* fewer than 5 times in the scan, those never used included, and none used 5
\* times or more; with none to list the "none found" message is sent.
Listed ==
    IF sent[Len(sent)].kind = "underused"
    THEN {sent[Len(sent)].body[i] : i \in 1..Len(sent[Len(sent)].body)}
    ELSE {}

C6_UnderusedExact ==
    (cmd = "underused_emojis" /\ pc = "done" /\ raised = "none") =>
        /\ Listed = {Emoji_str(registry[i]) :
                        i \in {j \in 1..Len(registry) :
                                  Total(counts, <<"id", registry[j].id>>) < 5}}
        /\ sent[Len(sent)].kind = IF Listed = {} THEN "none_underused" ELSE "underused"

\* C7: counting a message raises the count under every key by the key's
\* occurrences in the text plus the tallies of the reactions bearing it, and
\* the count of every emoji by its k occurrences in the text plus the tally
\* N of its reactions: N and not 1, and nothing deduplicated.
Counted(e) == e.yielded /\ CopiesIn(e, stored') = CopiesIn(e, stored) + 1

IdentOccurrences(m, ident) ==
    SumSeq([i \in 1..Len(m.content) |->
               IF m.content[i].type # "word" /\ Identity(m.content[i].s) = ident
               THEN 1 ELSE 0])

IdentTally(m, ident) ==
    SumSeq([i \in 1..Len(m.reactions) |->
               IF Identity(Emoji_str(m.reactions[i].emoji)) = ident
               THEN m.reactions[i].count ELSE 0])

C7_ReactionTallyAdded ==
    [][\A e \in BagToSet(stored') :
          Counted(e) =>
            /\ \A key \in PoolKeys :
                 Get(counts', key) = Get(counts, key)
                     + TextOccurrences(MessagePool[e.m], key)
                     + ReactionTally(MessagePool[e.m], key)
            /\ \A key \in PoolKeys :
                 Total(counts', Identity(key)) = Total(counts, Identity(key))
                     + IdentOccurrences(MessagePool[e.m], Identity(key))
                     + IdentTally(MessagePool[e.m], Identity(key))
            /\ Keys(counts') \subseteq PoolKeys]_vars

C7_Witness ==
    /\ stored = SetToBag({[ch |-> 1, ts |-> Now - 7, m |-> 4, yielded |-> TRUE]})
    /\ TextOccurrences(MessagePool[4], <<"grin">>) = 1
    /\ ReactionTally(MessagePool[4], <<"grin">>) = 2
    /\ Get(counts, <<"grin">>) = 3

\* C8: the ranked entries are the map's entries by count descending, equal
\* counts in insertion order, cut to the first 20: min(20, size) entries,
\* nothing omitted that counts more than an entry shown, each label the
\* resolved form of the key whose count stands beside it.
Place(c, i) ==
    1 + Cardinality({j \in 1..Len(c) :
                        c[j].n > c[i].n \/ (c[j].n = c[i].n /\ j < i)})

ClaimedLabel(reg, key) ==
    IF Len(key) = 3 /\ \E i \in 1..Len(reg) : reg[i].id = key[3]
    THEN LET e == reg[CHOOSE i \in 1..Len(reg) : reg[i].id = key[3]]
         IN <<IF e.animated THEN "<a:" ELSE "<:", e.name, e.id>>
    ELSE key

C8_TopTwenty ==
    (cmd = "emoji_leaderboard" /\ pc = "done" /\ raised = "none" /\ counts # <<>>) =>
        /\ Len(ranked) = Min(20, Len(counts))
        /\ \A i \in 1..Len(counts) :
               Place(counts, i) <= 20 =>
                   ranked[Place(counts, i)] =
                       [label |-> ClaimedLabel(registry, counts[i].key), n |-> counts[i].n]
        /\ \A r \in 1..(Len(ranked) - 1) : ranked[r].n >= ranked[r + 1].n
        /\ \A i \in 1..Len(counts) :
               Place(counts, i) > 20 => counts[i].n <= ranked[Len(ranked)].n
        /\ sent[Len(sent)] = Msg("chart", ranked)

C8_Witness ==
    /\ cmd = "emoji_leaderboard" /\ pc = "done" /\ raised = "none"
    /\ Len(counts) = 22 /\ Len(ranked) = 20
    /\ \E i, j \in 1..Len(counts) :
           i < j /\ counts[i].n = counts[j].n /\ Place(counts, j) <= 20
    /\ \E i \in 1..Len(counts) : Place(counts, i) > 20 /\ i < 20
    /\ ranked[1].n > ranked[20].n

\* C9 (as claimed): with a cutoff the scan counts every message stamped on or
\* after it, one stamped exactly at it included, and none stamped before it;
\* without a cutoff it counts every message.
C9_CutoffInclusive ==
    \A e \in BagToSet(stored) :
        e.yielded <=> (since = <<>> \/ e.ts >= since[1])

\* C10: the map, as a mapping from key to count, is determined by the bag of
\* the messages counted, whatever the order of messages and channels; and a
\* message without emoji and without reactions leaves the map as it was.
C10_OrderIndependent ==
    [][/\ \A key \in PoolKeys : Get(counts', key) = BagTotal(stored', key)
       /\ \A key \in Keys(counts') : key \in PoolKeys /\ Get(counts', key) > 0
       /\ \A e \in BagToSet(stored') :
              (Counted(e) /\ MessagePool[e.m].reactions = <<>>
                 /\ \A i \in 1..Len(MessagePool[e.m].content) :
                        MessagePool[e.m].content[i].type = "word")
                  => counts' = counts]_vars

C10_Witness ==
    /\ Returned
    /\ stored = SetToBag({[ch |-> 1, ts |-> Now - 7, m |-> 4, yielded |-> TRUE],
                          [ch |-> 2, ts |-> Now - 7, m |-> 3, yielded |-> TRUE]})
    /\ Get(counts, <<"<:", "new", "123">>) = 4
    /\ counts[2].key = <<"<:", "new", "123">>
    /\ counts[3].key = <<"<:", "old", "123">>

====
